---- MODULE Spec2Model ----
(***************************************************************************)
(* Model of the content publishing service: the rule-based content         *)
(* validator (app/services/validation.py), the platform registry           *)
(* (app/config.py, app/services/platforms), the publisher orchestrator     *)
(* and the concurrency-bounded batch orchestrator                          *)
(* (app/services/publisher.py).                                            *)
(*                                                                         *)
(* Strings are abstracted to what the code reads of them: their length and *)
(* whether strip() leaves nothing.  The HTML body is abstracted to what    *)
(* the parser reports of it.  A Python None list and an empty list are     *)
(* both the empty sequence (the code only tests their truthiness).         *)
(***************************************************************************)
EXTENDS Integers, Sequences, FiniteSets, TLC

(***************************************************************************)
(* Bounds of the model.                                                    *)
(***************************************************************************)
\* items of a batch, permits of a batch, the smaller of the two size limits
\* configured, and requested dispatches (items times platforms) of a batch
MaxItems == 3
MaxConcurrency == 2
SmallBatchLimit == 1
MaxDispatch == 4

(***************************************************************************)
(* Program constants.                                                      *)
(***************************************************************************)
max_content_length == 100000
max_images_per_content == 20
TITLE_MAX_LENGTH == 200
TITLE_SHORT == 10
CONTENT_SHORT == 100
EXCERPT_MAX_LENGTH == 500
TAGS_MAX_COUNT == 20
TAG_MAX_LENGTH == 50
CATEGORIES_MAX_COUNT == 10
CATEGORY_MAX_LENGTH == 100
FAQS_MAX_COUNT == 50
FAQ_QUESTION_MAX == 500
FAQ_ANSWER_MAX == 2000
SPECS_MAX_COUNT == 100
SPEC_NAME_MAX == 100
SPEC_VALUE_MAX == 200
META_TITLE_MAX == 60
META_TITLE_SHORT == 30
META_DESCRIPTION_MAX == 160
META_DESCRIPTION_SHORT == 120
KEYWORDS_MAX == 20
TWITTER_TITLE_MAX == 280
LINKEDIN_CONTENT_MAX == 3000
ERROR_PENALTY == 10
WARNING_PENALTY == 2
PLATFORM_ERROR_PENALTY == 5

(***************************************************************************)
(* Strings, fields and messages.                                           *)
(***************************************************************************)
\* A string: its length and whether it is whitespace only.  None has len -1.
Str(n) == [len |-> n, blank |-> (n = 0)]
NoneStr == [len |-> -1, blank |-> TRUE]
\* Python truthiness of an Optional[str]
Truthy(s) == s.len > 0
\* `not s or not s.strip()`
IsBlank(s) == ~Truthy(s) \/ s.blank

\* An error or warning field: name, 0-based index (-1 when none), sub-field
Fld(name) == <<name, -1, "">>
FldAt(name, i) == <<name, i, "">>
FldSub(name, i, sub) == <<name, i, sub>>
\* A message: its text, the number and the name formatted into it
Msg(text) == <<text, 0, "">>
MsgN(text, n) == <<text, n, "">>
MsgS(text, s) == <<text, 0, s>>
\* An entry of the errors list (kind "error") or of the warnings list ("warning")
Issue(kind, field, message) == [kind |-> kind, field |-> field, message |-> message]

\* Body(e), with e evaluated once (a LET definition is evaluated at each use)
With(e, Body(_)) == CHOOSE r \in {Body(x) : x \in {e}} : TRUE

\* [x["message"] for x in issues]
RECURSIVE Messages(_)
Messages(issues) ==
    IF issues = <<>> THEN <<>>
    ELSE <<Head(issues).message>> \o Messages(Tail(issues))

(***************************************************************************)
(* Content validator: app/services/validation.py                           *)
(***************************************************************************)
\* What the checks append to the errors and warnings lists they are handed,
\* in the order of the appends
Nothing == <<>>
Err(field, message) == <<Issue("error", field, message)>>
Warn(field, message) == <<Issue("warning", field, message)>>
Both(a, b) == a \o b
ErrorsOf(found) == SelectSeq(found, LAMBDA x : x.kind = "error")
WarningsOf(found) == SelectSeq(found, LAMBDA x : x.kind = "warning")

\* for i, x in enumerate(s): the appends of Op(i, x), in order
ForEach(Op(_, _), s) ==
    LET f[i \in 0..Len(s)] ==
            IF i = 0 THEN Nothing ELSE Both(f[i - 1], Op(i - 1, s[i]))
    IN  f[Len(s)]

\* mutant: a whitespace-only title is taken for a title
title_rule_not_stripped(content) ==
    IF ~Truthy(content.title)
    THEN Err(Fld("title"), Msg("Title is required and cannot be empty"))
    ELSE IF content.title.len > TITLE_MAX_LENGTH
    THEN Err(Fld("title"), MsgN("Title must be N characters or less", TITLE_MAX_LENGTH))
    ELSE IF content.title.len < TITLE_SHORT
    THEN Warn(Fld("title"), Msg("Title is quite short, consider making it more descriptive"))
    ELSE Nothing

\* mutant: titles of up to 300 characters pass
title_rule_limit_300(content) ==
    IF IsBlank(content.title)
    THEN Err(Fld("title"), Msg("Title is required and cannot be empty"))
    ELSE IF content.title.len > 300
    THEN Err(Fld("title"), MsgN("Title must be N characters or less", 300))
    ELSE IF content.title.len < TITLE_SHORT
    THEN Warn(Fld("title"), Msg("Title is quite short, consider making it more descriptive"))
    ELSE Nothing

title_rule(content) ==
    IF IsBlank(content.title)
    THEN Err(Fld("title"), Msg("Title is required and cannot be empty"))
    ELSE IF content.title.len > TITLE_MAX_LENGTH
    THEN Err(Fld("title"), MsgN("Title must be N characters or less", TITLE_MAX_LENGTH))
    ELSE IF content.title.len < TITLE_SHORT
    THEN Warn(Fld("title"), Msg("Title is quite short, consider making it more descriptive"))
    ELSE Nothing

content_rule(content) ==
    IF IsBlank(content.content)
    THEN Err(Fld("content"), Msg("Content is required and cannot be empty"))
    ELSE IF content.content.len > max_content_length
    THEN Err(Fld("content"), MsgN("Content exceeds maximum length of N characters", max_content_length))
    ELSE IF content.content.len < CONTENT_SHORT
    THEN Warn(Fld("content"), Msg("Content is quite short, consider adding more detail"))
    ELSE Nothing

excerpt_rule(content) ==
    IF Truthy(content.excerpt) /\ content.excerpt.len > EXCERPT_MAX_LENGTH
    THEN Err(Fld("excerpt"), MsgN("Excerpt must be N characters or less", EXCERPT_MAX_LENGTH))
    ELSE Nothing

tags_rule(content) ==
    IF content.tags = <<>> THEN Nothing
    ELSE Both(IF Len(content.tags) > TAGS_MAX_COUNT
              THEN Err(Fld("tags"), MsgN("Maximum N tags allowed", TAGS_MAX_COUNT))
              ELSE Nothing,
              ForEach(LAMBDA i, tag :
                          IF tag > TAG_MAX_LENGTH
                          THEN Err(FldAt("tags", i), MsgN("Tag must be N characters or less", TAG_MAX_LENGTH))
                          ELSE Nothing,
                      content.tags))

categories_rule(content) ==
    IF content.categories = <<>> THEN Nothing
    ELSE Both(IF Len(content.categories) > CATEGORIES_MAX_COUNT
              THEN Err(Fld("categories"), MsgN("Maximum N categories allowed", CATEGORIES_MAX_COUNT))
              ELSE Nothing,
              ForEach(LAMBDA i, category :
                          IF category > CATEGORY_MAX_LENGTH
                          THEN Err(FldAt("categories", i),
                                   MsgN("Category must be N characters or less", CATEGORY_MAX_LENGTH))
                          ELSE Nothing,
                      content.categories))

_validate_basic_fields(content) ==
    Both(title_rule(content),
    Both(content_rule(content),
    Both(excerpt_rule(content),
    Both(tags_rule(content), categories_rule(content)))))

faq_item_rule(i, faq) ==
    Both(IF IsBlank(faq.question)
         THEN Err(FldSub("faqs", i, "question"), Msg("FAQ question is required"))
         ELSE IF faq.question.len > FAQ_QUESTION_MAX
         THEN Err(FldSub("faqs", i, "question"),
                  MsgN("FAQ question must be N characters or less", FAQ_QUESTION_MAX))
         ELSE Nothing,
    Both(IF IsBlank(faq.answer)
         THEN Err(FldSub("faqs", i, "answer"), Msg("FAQ answer is required"))
         ELSE IF faq.answer.len > FAQ_ANSWER_MAX
         THEN Err(FldSub("faqs", i, "answer"),
                  MsgN("FAQ answer must be N characters or less", FAQ_ANSWER_MAX))
         ELSE Nothing,
         IF faq.order < 1
         THEN Err(FldSub("faqs", i, "order"), Msg("FAQ order must be 1 or greater"))
         ELSE Nothing))

\* mutant: the count limit is off by one
_validate_faqs_off_by_one(faqs) ==
    IF Len(faqs) = 0
    THEN Err(Fld("faqs"), Msg("At least one FAQ item is required"))
    ELSE Both(IF Len(faqs) >= FAQS_MAX_COUNT
              THEN Err(Fld("faqs"), MsgN("Maximum N FAQ items allowed", FAQS_MAX_COUNT))
              ELSE Nothing,
              ForEach(faq_item_rule, faqs))

_validate_faqs(faqs) ==
    IF Len(faqs) = 0
    THEN Err(Fld("faqs"), Msg("At least one FAQ item is required"))
    ELSE Both(IF Len(faqs) > FAQS_MAX_COUNT
              THEN Err(Fld("faqs"), MsgN("Maximum N FAQ items allowed", FAQS_MAX_COUNT))
              ELSE Nothing,
              ForEach(faq_item_rule, faqs))

spec_item_rule(i, spec) ==
    Both(IF IsBlank(spec.name)
         THEN Err(FldSub("specifications", i, "name"), Msg("Specification name is required"))
         ELSE IF spec.name.len > SPEC_NAME_MAX
         THEN Err(FldSub("specifications", i, "name"),
                  MsgN("Specification name must be N characters or less", SPEC_NAME_MAX))
         ELSE Nothing,
         IF IsBlank(spec.value)
         THEN Err(FldSub("specifications", i, "value"), Msg("Specification value is required"))
         ELSE IF spec.value.len > SPEC_VALUE_MAX
         THEN Err(FldSub("specifications", i, "value"),
                  MsgN("Specification value must be N characters or less", SPEC_VALUE_MAX))
         ELSE Nothing)

_validate_specifications(specifications) ==
    Both(IF Len(specifications) > SPECS_MAX_COUNT
         THEN Err(Fld("specifications"), MsgN("Maximum N specifications allowed", SPECS_MAX_COUNT))
         ELSE Nothing,
         ForEach(spec_item_rule, specifications))

_validate_content_type_specific(content) ==
    IF content.type = "faq"
    THEN IF content.faqs = <<>>
         THEN Err(Fld("faqs"), Msg("FAQ content must include at least one FAQ item"))
         ELSE _validate_faqs(content.faqs)
    ELSE IF content.type = "product-description"
    THEN IF content.specifications = <<>>
         THEN Warn(Fld("specifications"), Msg("Product descriptions typically include specifications"))
         ELSE _validate_specifications(content.specifications)
    ELSE IF content.type = "landing-page"
    THEN IF ~content.cta_text \/ ~content.cta_url
         THEN Warn(Fld("cta"), Msg("Landing pages typically include a call-to-action"))
         ELSE Nothing
    ELSE Nothing

\* mutant: a missing SEO block is an error
_validate_seo_as_error(content) ==
    IF ~content.seo.present
    THEN Err(Fld("seo"), Msg("SEO configuration is recommended for better search visibility"))
    ELSE Nothing

_validate_seo(content) ==
    IF ~content.seo.present
    THEN Warn(Fld("seo"), Msg("SEO configuration is recommended for better search visibility"))
    ELSE LET seo == content.seo IN
         Both(IF Truthy(seo.meta_title)
              THEN IF seo.meta_title.len > META_TITLE_MAX
                   THEN Err(Fld("seo.meta_title"),
                            MsgN("Meta title should be N characters or less for optimal SEO", META_TITLE_MAX))
                   ELSE IF seo.meta_title.len < META_TITLE_SHORT
                   THEN Warn(Fld("seo.meta_title"),
                             Msg("Meta title is quite short, consider making it more descriptive"))
                   ELSE Nothing
              ELSE Warn(Fld("seo.meta_title"), Msg("Meta title is recommended for SEO")),
         Both(IF Truthy(seo.meta_description)
              THEN IF seo.meta_description.len > META_DESCRIPTION_MAX
                   THEN Err(Fld("seo.meta_description"),
                            MsgN("Meta description should be N characters or less for optimal SEO",
                                 META_DESCRIPTION_MAX))
                   ELSE IF seo.meta_description.len < META_DESCRIPTION_SHORT
                   THEN Warn(Fld("seo.meta_description"),
                             Msg("Meta description is quite short, consider making it more descriptive"))
                   ELSE Nothing
              ELSE Warn(Fld("seo.meta_description"), Msg("Meta description is recommended for SEO")),
              IF seo.keywords > KEYWORDS_MAX
              THEN Warn(Fld("seo.keywords"), Msg("Too many keywords may dilute SEO effectiveness"))
              ELSE Nothing))

\* content.html is what BeautifulSoup reports of the body
_validate_html_content(content) ==
    LET html == content.html IN
    IF html.parse_error
    THEN Err(Fld("content"), Msg("Invalid HTML content"))
    ELSE Both(IF html.text_empty
              THEN Err(Fld("content"), Msg("Content appears to be empty after HTML parsing"))
              ELSE Nothing,
         Both(IF html.images_without_alt > 0
              THEN Warn(Fld("content"),
                        MsgN("Found N images without alt text for accessibility", html.images_without_alt))
              ELSE Nothing,
         Both(IF html.empty_links > 0
              THEN Warn(Fld("content"), MsgN("Found N empty links", html.empty_links))
              ELSE Nothing,
         Both(IF html.headings = 0
              THEN Warn(Fld("content"), Msg("Content has no headings, consider adding structure"))
              ELSE Nothing,
              IF html.h1_tags > 1
              THEN Warn(Fld("content"), Msg("Multiple H1 tags found, consider using only one for SEO"))
              ELSE Nothing))))

image_rule(i, image) ==
    Both(IF ~image.alt_text
         THEN Warn(FldSub("images", i, "alt_text"), Msg("Image alt text is recommended for accessibility"))
         ELSE Nothing,
         IF ~image.url
         THEN Err(FldSub("images", i, "url"), Msg("Image URL is required"))
         ELSE Nothing)

_validate_images(content) ==
    IF content.images = <<>> THEN Nothing
    ELSE Both(IF Len(content.images) > max_images_per_content
              THEN Err(Fld("images"), MsgN("Maximum N images allowed", max_images_per_content))
              ELSE Nothing,
              ForEach(image_rule, content.images))

Min(a, b) == IF a < b THEN a ELSE b
Max(a, b) == IF a > b THEN a ELSE b

\* mutant: the score is not clamped
_calculate_validation_score_unclamped(content, errors, warnings) ==
    100 - Len(errors) * ERROR_PENALTY - Len(warnings) * WARNING_PENALTY
        + (IF Len(content.tags) > 0 THEN 3 ELSE 0)
        + (IF Len(content.categories) > 0 THEN 2 ELSE 0)

\* mutant: images with alt text earn nothing
_calculate_validation_score_no_image_bonus(content, errors, warnings) ==
    Max(0, Min(100, 100 - Len(errors) * ERROR_PENALTY - Len(warnings) * WARNING_PENALTY
                        + (IF content.seo.present /\ Truthy(content.seo.meta_title)
                              /\ Truthy(content.seo.meta_description) THEN 5 ELSE 0)
                        + (IF Len(content.tags) > 0 THEN 3 ELSE 0)
                        + (IF Len(content.categories) > 0 THEN 2 ELSE 0)))

_calculate_validation_score(content, errors, warnings) ==
    LET base_score == 100
        error_penalty == Len(errors) * ERROR_PENALTY
        warning_penalty == Len(warnings) * WARNING_PENALTY
        bonus == (IF content.seo.present /\ Truthy(content.seo.meta_title)
                     /\ Truthy(content.seo.meta_description) THEN 5 ELSE 0)
               + (IF Len(content.tags) > 0 THEN 3 ELSE 0)
               + (IF Len(content.categories) > 0 THEN 2 ELSE 0)
               + (IF content.images # <<>>
                     /\ \A k \in 1..Len(content.images) : content.images[k].alt_text
                  THEN 5 ELSE 0)
    IN  Max(0, Min(100, base_score - error_penalty - warning_penalty + bonus))

\* mutant: a warning makes the result invalid
ValidationResult_strict(errors, warnings, score) ==
    [is_valid |-> Len(errors) = 0 /\ Len(warnings) = 0, errors |-> errors,
     warnings |-> warnings, score |-> score]

ValidationResult(errors, warnings, score) ==
    [is_valid |-> Len(errors) = 0, errors |-> errors, warnings |-> warnings, score |-> score]

validate_content(content) ==
    With(Both(_validate_basic_fields(content),
         Both(_validate_content_type_specific(content),
         Both(_validate_seo(content),
         Both(_validate_html_content(content), _validate_images(content))))),
         LAMBDA found :
             ValidationResult(ErrorsOf(found), WarningsOf(found),
                              _calculate_validation_score(content, ErrorsOf(found),
                                                          WarningsOf(found))))

platform_rules(content, platform) ==
    IF platform = "twitter"
    THEN IF content.title.len > TWITTER_TITLE_MAX
         THEN Err(Fld("title"), Msg("Title too long for Twitter (280 character limit)"))
         ELSE Nothing
    ELSE IF platform = "linkedin"
    THEN IF Truthy(content.content) /\ content.content.len > LINKEDIN_CONTENT_MAX
         THEN Warn(Fld("content"), Msg("Content is quite long for LinkedIn posts"))
         ELSE Nothing
    ELSE IF platform = "webflow"
    THEN IF ~content.seo.present
         THEN Warn(Fld("seo"), Msg("SEO configuration is important for Webflow sites"))
         ELSE Nothing
    ELSE Nothing

\* mutant: the platform result holds the platform findings only
validate_for_platform_platform_only(content, platform) ==
    With(platform_rules(content, platform),
         LAMBDA added :
             ValidationResult(ErrorsOf(added), WarningsOf(added),
                              Max(0, validate_content(content).score
                                     - Len(ErrorsOf(added)) * PLATFORM_ERROR_PENALTY
                                     - Len(WarningsOf(added)))))

\* mutant: the platform rules are applied to an invalid base result too
validate_for_platform_no_early_return(content, platform) ==
    With(validate_content(content),
         LAMBDA base_result :
             LET added == platform_rules(content, platform)
             IN  ValidationResult(base_result.errors \o ErrorsOf(added),
                                  base_result.warnings \o WarningsOf(added),
                                  Max(0, base_result.score
                                         - Len(ErrorsOf(added)) * PLATFORM_ERROR_PENALTY
                                         - Len(WarningsOf(added)))))

\* mutant: a platform warning costs as much as a platform error
validate_for_platform_flat_penalty(content, platform) ==
    With(validate_content(content),
         LAMBDA base_result :
             LET added == platform_rules(content, platform)
             IN  IF ~base_result.is_valid THEN base_result
                 ELSE ValidationResult(base_result.errors \o ErrorsOf(added),
                                       base_result.warnings \o WarningsOf(added),
                                       Max(0, base_result.score
                                              - Len(added) * PLATFORM_ERROR_PENALTY)))

validate_for_platform(content, platform) ==
    With(validate_content(content),
         LAMBDA base_result :
             LET added == platform_rules(content, platform)
             IN  IF ~base_result.is_valid THEN base_result
                 ELSE ValidationResult(base_result.errors \o ErrorsOf(added),
                                       base_result.warnings \o WarningsOf(added),
                                       Max(0, base_result.score
                                              - Len(ErrorsOf(added)) * PLATFORM_ERROR_PENALTY
                                              - Len(WarningsOf(added)))))


(***************************************************************************)
(* Settings and the platform registry: app/config.py,                      *)
(* app/services/platforms/base.py, ContentPublisher._initialize_platforms  *)
(***************************************************************************)
\* A credential is "none" (unset), "empty" (set to the empty string) or "set"

get_platform_config(settings, platform) ==
    IF platform = "webflow"
    THEN [api_key |-> settings.webflow_api_key,
          site_id |-> settings.webflow_site_id,
          collection_id |-> settings.webflow_collection_id]
    ELSE IF platform = "wordpress"
    THEN [site_url |-> settings.wordpress_site_url,
          username |-> settings.wordpress_username,
          password |-> settings.wordpress_password,
          app_password |-> settings.wordpress_app_password]
    ELSE IF platform = "linkedin"
    THEN [access_token |-> settings.linkedin_access_token,
          user_id |-> settings.linkedin_user_id]
    ELSE [api_key |-> settings.twitter_api_key,
          api_secret |-> settings.twitter_api_secret,
          access_token |-> settings.twitter_access_token,
          access_token_secret |-> settings.twitter_access_token_secret]

is_platform_enabled(settings, platform) ==
    LET config == get_platform_config(settings, platform)
    IN  \A k \in DOMAIN config : config[k] # "none"

get_required_config_fields(platform) ==
    IF platform = "webflow" THEN {"api_key", "site_id"}
    ELSE {"site_url", "username", "password"}

\* Only the Webflow and WordPress adapters exist
AdapterClasses == {"webflow", "wordpress"}

_initialize_platforms(settings) ==
    [name \in {p \in AdapterClasses : is_platform_enabled(settings, p)} |->
        [name |-> name, config |-> get_platform_config(settings, name)]]

validate_config(adapter) ==
    \A field \in get_required_config_fields(adapter.name) :
        field \in DOMAIN adapter.config /\ adapter.config[field] = "set"

(***************************************************************************)
(* Responses                                                               *)
(***************************************************************************)
PublishResponse(success, message, content_id, url, platform_results, errors, warnings) ==
    [success |-> success, message |-> message, content_id |-> content_id, url |-> url,
     platform_results |-> platform_results, errors |-> errors, warnings |-> warnings]

FailedResponse(message, errors, warnings) ==
    PublishResponse(FALSE, message, "", "", <<>>, errors, warnings)

\* One entry of the platform_results dict
PlatformResult(success, message, content_id, url, errors, warnings) ==
    [success |-> success, message |-> message, content_id |-> content_id, url |-> url,
     errors |-> errors, warnings |-> warnings]

\* d[key] = value on a dict that keeps insertion order: a sequence of <<key, value>>
DictPut(d, key, value) ==
    IF \E k \in 1..Len(d) : d[k][1] = key
    THEN [k \in 1..Len(d) |-> IF d[k][1] = key THEN <<key, value>> ELSE d[k]]
    ELSE Append(d, <<key, value>>)


(***************************************************************************)
(* Platform adapters: WebflowService.publish, WordPressService.publish.    *)
(* The remote's reply is an input: "created" (the success status),         *)
(* "rejected" (any other status), "timeout".  "fault" is an adapter that   *)
(* raises, which the adapter interface allows and the publisher handles.   *)
(***************************************************************************)
RemoteId(platform) == IF platform = "webflow" THEN "webflow-item" ELSE "wordpress-post"
RemoteUrl(platform) == IF platform = "webflow" THEN "https://webflow/item" ELSE "https://wordpress/post"

adapter_publish(adapter, reply) ==
    IF ~validate_config(adapter)
    THEN FailedResponse(MsgS("Invalid configuration", adapter.name),
                        <<Msg("Missing required configuration fields")>>, <<>>)
    ELSE IF reply = "created"
    THEN PublishResponse(TRUE, MsgS("Content published successfully", adapter.name),
                         RemoteId(adapter.name), RemoteUrl(adapter.name), <<>>, <<>>, <<>>)
    ELSE IF reply = "timeout"
    THEN FailedResponse(MsgS("Request timeout while publishing", adapter.name),
                        <<Msg("Request timeout")>>, <<>>)
    ELSE FailedResponse(MsgS("Failed to publish", adapter.name), <<Msg("Unknown error")>>, <<>>)

\* What `await platform_service.publish(...)` hands the publisher.  The adapter
\* is any BasePlatformService: besides the outcomes of the two shipped
\* adapters, a PublishResponse may carry warnings, with success or failure.
adapter_outcome(adapter, reply) ==
    IF reply = "created_warned"
    THEN [adapter_publish(adapter, "created") EXCEPT !.warnings = <<Msg("adapter warning")>>]
    ELSE IF reply = "rejected_warned"
    THEN [adapter_publish(adapter, "rejected") EXCEPT !.warnings = <<Msg("adapter warning")>>]
    ELSE adapter_publish(adapter, reply)

(***************************************************************************)
(* Contents                                                                *)
(***************************************************************************)
NoSeo == [present |-> FALSE, meta_title |-> NoneStr, meta_description |-> NoneStr, keywords |-> 0]
Html(headings, h1_tags) ==
    [parse_error |-> FALSE, text_empty |-> FALSE, images_without_alt |-> 0, empty_links |-> 0,
     headings |-> headings, h1_tags |-> h1_tags]

\* tests/conftest.py sample_content
SampleContent ==
    [type |-> "blog", title |-> Str(14), content |-> Str(53), html |-> Html(1, 1),
     excerpt |-> Str(37), tags |-> <<4, 4>>, categories |-> <<7>>,
     seo |-> [present |-> TRUE, meta_title |-> Str(26), meta_description |-> Str(37), keywords |-> 3],
     images |-> <<>>, faqs |-> <<>>, specifications |-> <<>>, cta_text |-> FALSE, cta_url |-> FALSE]

\* tests/unit/test_validation.py test_faq_without_questions
FaqWithoutQuestions ==
    [type |-> "faq", title |-> Str(8), content |-> Str(18), html |-> Html(0, 0),
     excerpt |-> NoneStr, tags |-> <<>>, categories |-> <<>>, seo |-> NoSeo,
     images |-> <<>>, faqs |-> <<>>, specifications |-> <<>>, cta_text |-> FALSE, cta_url |-> FALSE]

(***************************************************************************)
(* State                                                                   *)
(***************************************************************************)
VARIABLES
    settings,      \* the configuration the publisher was constructed from
    platforms,     \* ContentPublisher.platforms: name -> adapter
    request,       \* the BatchPublishRequest being served
    bpc,           \* batch_publish: "idle", "gathering" (awaiting gather), "done"
    semaphore,     \* value of the asyncio.Semaphore
    tasks,         \* the publish_single_item tasks, by item: position and locals of publish
    validations,   \* by item: how often validate_content ran, the platforms validated for
    calls,         \* by item: the adapter publish calls issued, with the remote's reply
    response,      \* the BatchPublishResponse
    checked        \* a direct call of the validator: its content, platform and results

vars == <<settings, platforms, request, bpc, semaphore, tasks, validations, calls, response,
          checked>>

NoResponse == FailedResponse(Msg(""), <<>>, <<>>)

NewTask ==
    [pc |-> "waiting", pidx |-> 0, platform_results |-> <<>>, all_successful |-> TRUE,
     errors |-> <<>>, warnings |-> <<>>, outcome |-> "none", response |-> NoResponse]

NoValidations == [content |-> 0, platform |-> <<>>]

NoCheck == [stage |-> "none"]

\* A task with what the validator and the adapters saw of it
Frame(task, validated, called) == [t |-> task, v |-> validated, c |-> called]

(***************************************************************************)
(* ContentPublisher.publish                                                *)
(***************************************************************************)
Return(fr, result) ==
    [fr EXCEPT !.t.pc = "done", !.t.outcome = "returned", !.t.response = result]

\* `if not validation_result.is_valid`: the gate before any platform is looked at
\* mutant: the gate is never taken
content_gate_open(validation_result) == FALSE
content_gate(validation_result) == ~validation_result.is_valid

\* `if not platform_validation.is_valid`
platform_gate(platform_validation) == ~platform_validation.is_valid

\* mutant: only the first requested platform is looked up
unavailable_first_only(plats, registry) ==
    IF plats[1] \notin DOMAIN registry THEN <<plats[1]>> ELSE <<>>

unavailable_platforms(plats, registry) ==
    SelectSeq(plats, LAMBDA platform : platform \notin DOMAIN registry)

not_configured_errors(unavailable) ==
    [k \in 1..Len(unavailable) |-> MsgS("Platform is not configured or enabled", unavailable[k])]

\* mutant: the last successful result is taken
last_successful(platform_results) ==
    LET hits == SelectSeq(platform_results, LAMBDA kv : kv[2].success)
    IN  IF hits = <<>> THEN PlatformResult(FALSE, Msg(""), "", "", <<>>, <<>>) ELSE hits[Len(hits)][2]

\* next(result for result in platform_results.values() if result["success"])
first_successful(platform_results) ==
    LET hits == SelectSeq(platform_results, LAMBDA kv : kv[2].success)
    IN  IF hits = <<>> THEN PlatformResult(FALSE, Msg(""), "", "", <<>>, <<>>) ELSE hits[1][2]

publish_finish(t, plats) ==
    IF t.all_successful
    THEN PublishResponse(TRUE, MsgN("Content published successfully to N platform(s)", Len(plats)),
                         first_successful(t.platform_results).content_id,
                         first_successful(t.platform_results).url,
                         t.platform_results, t.errors, t.warnings)
    ELSE PublishResponse(FALSE, Msg("Content publishing completed with some failures"), "", "",
                         t.platform_results, t.errors, t.warnings)

record_invalid(t, platform_name, platform_validation) ==
    [t EXCEPT !.platform_results =
                  DictPut(@, platform_name,
                          PlatformResult(FALSE, Msg("Platform-specific validation failed"), "", "",
                                         Messages(platform_validation.errors), <<>>)),
              !.all_successful = FALSE]

\* mutant: a failed result leaves all_successful as it was
record_result_keeps_success(t, platform_name, result) ==
    [t EXCEPT !.platform_results =
                  DictPut(@, platform_name,
                          PlatformResult(result.success, result.message, result.content_id,
                                         result.url, result.errors, result.warnings)),
              !.errors = IF result.success THEN @ ELSE @ \o result.errors,
              !.warnings = IF result.success THEN @ \o result.warnings ELSE @]

record_result(t, platform_name, result) ==
    [t EXCEPT !.platform_results =
                  DictPut(@, platform_name,
                          PlatformResult(result.success, result.message, result.content_id,
                                         result.url, result.errors, result.warnings)),
              !.all_successful = IF result.success THEN @ ELSE FALSE,
              !.errors = IF result.success THEN @ ELSE @ \o result.errors,
              !.warnings = IF result.success THEN @ \o result.warnings ELSE @]

record_fault(t, platform_name) ==
    [t EXCEPT !.platform_results =
                  DictPut(@, platform_name,
                          PlatformResult(FALSE, MsgS("Error publishing to platform", platform_name),
                                         "", "", <<Msg("adapter fault")>>, <<>>)),
              !.all_successful = FALSE,
              !.errors = Append(@, MsgS("Error publishing to platform", platform_name))]

\* The for loop over request.platforms from position fr.t.pidx, up to the next
\* adapter call that suspends or to the return.  An adapter whose configuration
\* is invalid answers without suspending.
RECURSIVE publish_loop(_, _, _, _)
publish_loop(frame, content, plats, registry) ==
    With(frame, LAMBDA fr :
        IF fr.t.pidx > Len(plats)
        THEN Return(fr, publish_finish(fr.t, plats))
        ELSE LET platform_name == plats[fr.t.pidx] IN
             IF platform_name \notin DOMAIN registry
             THEN \* self.platforms[platform_name] raises, caught by the outer handler
                  Return(fr, FailedResponse(Msg("Unexpected error during publishing"),
                                            <<MsgS("KeyError", platform_name)>>, <<>>))
             ELSE With(validate_for_platform(content, platform_name),
                       LAMBDA platform_validation :
                  LET fr1 == [fr EXCEPT !.v.platform = Append(@, platform_name)] IN
                  IF platform_gate(platform_validation)
                  THEN publish_loop(
                           [fr1 EXCEPT !.t = record_invalid(@, platform_name, platform_validation),
                                       !.t.pidx = fr.t.pidx + 1],
                           content, plats, registry)
                  ELSE IF ~validate_config(registry[platform_name])
                  THEN publish_loop(
                           [fr1 EXCEPT !.t = record_result(@, platform_name,
                                                 adapter_publish(registry[platform_name], "unsent")),
                                       !.t.pidx = fr.t.pidx + 1,
                                       !.c = Append(@, [platform |-> platform_name,
                                                        reply |-> "unsent"])],
                           content, plats, registry)
                  ELSE [fr1 EXCEPT !.t.pc = "calling",
                                   !.c = Append(@, [platform |-> platform_name,
                                                    reply |-> "pending"])]))

\* mutant: the calls for all the platforms are issued at once
publish_begin_fans_out(fr, content, plats, registry) ==
    With(validate_content(content), LAMBDA validation_result :
        LET fr1 == [fr EXCEPT !.v.content = @ + 1]
            unavailable == unavailable_platforms(plats, registry)
        IN  IF content_gate(validation_result)
            THEN Return(fr1, FailedResponse(Msg("Content validation failed"),
                                            Messages(validation_result.errors),
                                            Messages(validation_result.warnings)))
            ELSE IF unavailable # <<>>
            THEN Return(fr1, FailedResponse(Msg("Platforms not available"),
                                            not_configured_errors(unavailable), <<>>))
            ELSE [fr1 EXCEPT !.t.pidx = 1, !.t.pc = "calling", !.v.platform = plats,
                             !.c = [k \in 1..Len(plats) |->
                                       [platform |-> plats[k], reply |-> "pending"]]])

\* publish up to its first suspension
publish_begin(fr, content, plats, registry) ==
    With(validate_content(content), LAMBDA validation_result :
        LET fr1 == [fr EXCEPT !.v.content = @ + 1]
            unavailable == unavailable_platforms(plats, registry)
        IN  IF content_gate(validation_result)
            THEN Return(fr1, FailedResponse(Msg("Content validation failed"),
                                            Messages(validation_result.errors),
                                            Messages(validation_result.warnings)))
            ELSE IF unavailable # <<>>
            THEN Return(fr1, FailedResponse(Msg("Platforms not available"),
                                            not_configured_errors(unavailable), <<>>))
            ELSE publish_loop([fr1 EXCEPT !.t.pidx = 1], content, plats, registry))

\* mutant: the loop is left at the first platform that fails
publish_resume_stops_on_failure(fr, content, plats, registry, reply) ==
    LET platform_name == plats[fr.t.pidx]
        answered == [fr EXCEPT !.c[Len(fr.c)].reply = reply, !.t.pidx = fr.t.pidx + 1]
        recorded == [answered EXCEPT !.t = IF reply = "fault"
                                           THEN record_fault(@, platform_name)
                                           ELSE record_result(@, platform_name,
                                                    adapter_outcome(registry[platform_name], reply))]
    IN  IF recorded.t.all_successful
        THEN publish_loop(recorded, content, plats, registry)
        ELSE Return(recorded, publish_finish(recorded.t, plats))

\* publish resumed by the reply to the adapter call in flight
publish_resume(fr, content, plats, registry, reply) ==
    LET platform_name == plats[fr.t.pidx]
        answered == [fr EXCEPT !.c[Len(fr.c)].reply = reply, !.t.pidx = fr.t.pidx + 1]
    IN  publish_loop(
            [answered EXCEPT !.t = IF reply = "fault"
                                   THEN record_fault(@, platform_name)
                                   ELSE record_result(@, platform_name,
                                            adapter_outcome(registry[platform_name], reply))],
            content, plats, registry)


(***************************************************************************)
(* ContentPublisher.batch_publish                                          *)
(***************************************************************************)
BatchPublishResponse(success, total_items, successful_items, failed_items, results, errors) ==
    [success |-> success, total_items |-> total_items, successful_items |-> successful_items,
     failed_items |-> failed_items, results |-> results, errors |-> errors]

NoBatchResponse == BatchPublishResponse(FALSE, 0, 0, 0, <<>>, <<>>)

\* mutant: the limit is off by one
exceeds_batch_size_off_by_one(content_items, max_batch_size) ==
    Len(content_items) > max_batch_size + 1

exceeds_batch_size(content_items, max_batch_size) == Len(content_items) > max_batch_size

batch_rejected(content_items, max_batch_size) ==
    BatchPublishResponse(FALSE, Len(content_items), 0, Len(content_items), <<>>,
                         <<MsgN("Batch size exceeds maximum of N items", max_batch_size)>>)

\* asyncio.Semaphore: acquire takes a permit when the value is positive
\* mutant: acquire never waits
can_acquire_always(value) == TRUE
can_acquire(value) == value > 0

\* `async with semaphore` gives the permit back however the body is left
\* mutant: the permit is kept when the body raises
exit_semaphore_leaky(value, outcome) == IF outcome = "raised" THEN value ELSE value + 1
exit_semaphore(value, outcome) == value + 1

\* mutant: the results come back last task first
gather_reversed(done_tasks) ==
    [i \in 1..Len(done_tasks) |->
        [raised |-> done_tasks[Len(done_tasks) + 1 - i].outcome = "raised",
         value |-> done_tasks[Len(done_tasks) + 1 - i].response]]

\* What asyncio.gather(*tasks, return_exceptions=True) returns: by task, in task order
gather(done_tasks) ==
    [i \in 1..Len(done_tasks) |->
        [raised |-> done_tasks[i].outcome = "raised", value |-> done_tasks[i].response]]

item_fault_response(i) ==
    FailedResponse(MsgN("Error processing item N", i), <<Msg("request fault")>>, <<>>)

\* mutant: the loop never breaks
process_result_no_break(acc, i, result, stop_on_error) ==
    IF result.raised
    THEN [acc EXCEPT !.processed_results = Append(@, item_fault_response(i)),
                     !.failed_items = @ + 1,
                     !.errors = IF stop_on_error
                                THEN Append(@, MsgN("Stopped at item N due to error", i))
                                ELSE @]
    ELSE IF result.value.success
    THEN [acc EXCEPT !.processed_results = Append(@, result.value),
                     !.successful_items = @ + 1]
    ELSE [acc EXCEPT !.processed_results = Append(@, result.value),
                     !.failed_items = @ + 1,
                     !.errors = IF stop_on_error
                                THEN Append(@, MsgN("Stopped at item N due to publishing failure", i))
                                ELSE @]

\* mutant: a raised item is counted but gets no entry in the results
process_result_drops_fault(acc, i, result, stop_on_error) ==
    IF result.raised
    THEN [acc EXCEPT !.failed_items = @ + 1,
                     !.errors = IF stop_on_error
                                THEN Append(@, MsgN("Stopped at item N due to error", i))
                                ELSE @,
                     !.stopped = stop_on_error]
    ELSE IF result.value.success
    THEN [acc EXCEPT !.processed_results = Append(@, result.value),
                     !.successful_items = @ + 1]
    ELSE [acc EXCEPT !.processed_results = Append(@, result.value),
                     !.failed_items = @ + 1,
                     !.errors = IF stop_on_error
                                THEN Append(@, MsgN("Stopped at item N due to publishing failure", i))
                                ELSE @,
                     !.stopped = stop_on_error]

\* mutant: a failed result is counted with the successful ones
process_result_miscounts(acc, i, result, stop_on_error) ==
    IF result.raised
    THEN [acc EXCEPT !.processed_results = Append(@, item_fault_response(i)),
                     !.failed_items = @ + 1,
                     !.errors = IF stop_on_error
                                THEN Append(@, MsgN("Stopped at item N due to error", i))
                                ELSE @,
                     !.stopped = stop_on_error]
    ELSE [acc EXCEPT !.processed_results = Append(@, result.value),
                     !.successful_items = @ + 1]

\* One pass of the loop over the gathered results; acc.stopped is the break
process_result(acc, i, result, stop_on_error) ==
    IF result.raised
    THEN [acc EXCEPT !.processed_results = Append(@, item_fault_response(i)),
                     !.failed_items = @ + 1,
                     !.errors = IF stop_on_error
                                THEN Append(@, MsgN("Stopped at item N due to error", i))
                                ELSE @,
                     !.stopped = stop_on_error]
    ELSE IF result.value.success
    THEN [acc EXCEPT !.processed_results = Append(@, result.value),
                     !.successful_items = @ + 1]
    ELSE [acc EXCEPT !.processed_results = Append(@, result.value),
                     !.failed_items = @ + 1,
                     !.errors = IF stop_on_error
                                THEN Append(@, MsgN("Stopped at item N due to publishing failure", i))
                                ELSE @,
                     !.stopped = stop_on_error]

RECURSIVE process_results(_, _, _, _)
process_results(acc, results, i, stop_on_error) ==
    IF i > Len(results) \/ acc.stopped THEN acc
    ELSE process_results(process_result(acc, i, results[i], stop_on_error),
                         results, i + 1, stop_on_error)

\* mutant: total_items counts the results kept
batch_response_truncated_total(content_items, acc) ==
    BatchPublishResponse(acc.failed_items = 0, Len(acc.processed_results), acc.successful_items,
                         acc.failed_items, acc.processed_results, acc.errors)

batch_response(content_items, acc) ==
    BatchPublishResponse(acc.failed_items = 0, Len(content_items), acc.successful_items,
                         acc.failed_items, acc.processed_results, acc.errors)

(***************************************************************************)
(* Inputs                                                                  *)
(***************************************************************************)
Credentials(webflow_api_key, wordpress_app_password, max_batch_size) ==
    [webflow_api_key |-> webflow_api_key, webflow_site_id |-> "set",
     webflow_collection_id |-> "set",
     wordpress_site_url |-> "set", wordpress_username |-> "set", wordpress_password |-> "set",
     wordpress_app_password |-> wordpress_app_password,
     linkedin_access_token |-> "none", linkedin_user_id |-> "none",
     twitter_api_key |-> "none", twitter_api_secret |-> "none",
     twitter_access_token |-> "none", twitter_access_token_secret |-> "none",
     max_batch_size |-> max_batch_size]

SettingsChoices ==
    { Credentials("set", "set", MaxItems),
      Credentials("set", "set", SmallBatchLimit),
      Credentials("set", "none", MaxItems),
      Credentials("empty", "set", MaxItems) }

BatchContents == {SampleContent, FaqWithoutQuestions}

PlatformLists ==
    { <<"webflow">>, <<"wordpress", "webflow">>, <<"webflow", "twitter">>, <<"twitter", "linkedin">> }

ContentItems == UNION {[1..n -> BatchContents] : n \in 1..MaxItems}

BatchRequests ==
    { req \in [content_items : ContentItems, platforms : PlatformLists,
               concurrency : 1..MaxConcurrency, stop_on_error : BOOLEAN] :
        Len(req.content_items) * Len(req.platforms) <= MaxDispatch }

NoRequest ==
    [content_items |-> <<>>, platforms |-> <<>>, concurrency |-> 0, stop_on_error |-> FALSE]

(***************************************************************************)
(* Actions                                                                 *)
(***************************************************************************)
Init ==
    /\ settings \in SettingsChoices
    /\ platforms = _initialize_platforms(settings)
    /\ request = NoRequest
    /\ bpc = "idle"
    /\ semaphore = 0
    /\ tasks = <<>>
    /\ validations = <<>>
    /\ calls = <<>>
    /\ response = NoBatchResponse
    /\ checked = NoCheck

\* batch_publish is called: the size check, then the tasks are handed to gather
BatchPublish(req) ==
    /\ bpc = "idle"
    /\ request' = req
    /\ validations' = [i \in 1..Len(req.content_items) |-> NoValidations]
    /\ calls' = [i \in 1..Len(req.content_items) |-> <<>>]
    /\ IF exceeds_batch_size(req.content_items, settings.max_batch_size)
       THEN /\ response' = batch_rejected(req.content_items, settings.max_batch_size)
            /\ bpc' = "done"
            /\ UNCHANGED <<semaphore, tasks>>
       ELSE /\ semaphore' = req.concurrency
            /\ tasks' = [i \in 1..Len(req.content_items) |-> NewTask]
            /\ bpc' = "gathering"
            /\ UNCHANGED response
    /\ UNCHANGED <<settings, platforms, checked>>

\* The frame of task i after a step, written back
Settle(i, fr) ==
    /\ tasks' = [tasks EXCEPT ![i] = fr.t]
    /\ validations' = [validations EXCEPT ![i] = fr.v]
    /\ calls' = [calls EXCEPT ![i] = fr.c]
    /\ semaphore' = IF fr.t.pc = "done"
                    THEN exit_semaphore(semaphore - 1, fr.t.outcome)
                    ELSE semaphore - 1

\* publish_single_item(content_items[i]) takes a permit and runs to its first
\* suspension; building the PublishRequest may raise
Acquire(i, fault) ==
    /\ bpc = "gathering"
    /\ tasks[i].pc = "waiting"
    /\ can_acquire(semaphore)
    /\ \E fr \in { IF fault
                    THEN [Frame(tasks[i], validations[i], calls[i])
                              EXCEPT !.t.pc = "done", !.t.outcome = "raised"]
                    ELSE publish_begin(Frame(tasks[i], validations[i], calls[i]),
                                       request.content_items[i], request.platforms, platforms) } :
           Settle(i, fr)
    /\ UNCHANGED <<settings, platforms, request, bpc, response, checked>>

\* The adapter call of task i completes; publish runs on to its next suspension
AdapterReply(i, reply) ==
    /\ bpc = "gathering"
    /\ tasks[i].pc = "calling"
    /\ \E fr \in { publish_resume(Frame(tasks[i], validations[i], calls[i]),
                                    request.content_items[i], request.platforms, platforms,
                                    reply) } :
           /\ tasks' = [tasks EXCEPT ![i] = fr.t]
           /\ validations' = [validations EXCEPT ![i] = fr.v]
           /\ calls' = [calls EXCEPT ![i] = fr.c]
           /\ semaphore' = IF fr.t.pc = "done"
                           THEN exit_semaphore(semaphore, fr.t.outcome)
                           ELSE semaphore
    /\ UNCHANGED <<settings, platforms, request, bpc, response, checked>>

\* gather returns once every task is done; the results are processed in order
Gather ==
    /\ bpc = "gathering"
    /\ \A i \in 1..Len(tasks) : tasks[i].pc = "done"
    /\ response' = batch_response(
                       request.content_items,
                       process_results([processed_results |-> <<>>, successful_items |-> 0,
                                        failed_items |-> 0, errors |-> <<>>, stopped |-> FALSE],
                                       gather(tasks), 1, request.stop_on_error))
    /\ bpc' = "done"
    /\ UNCHANGED <<settings, platforms, request, semaphore, tasks, validations, calls, checked>>

ReplyKinds == {"created", "rejected", "fault"}

Next ==
    \/ \E req \in BatchRequests : BatchPublish(req)
    \/ \E i \in 1..Len(tasks) : \E fault \in BOOLEAN : Acquire(i, fault)
    \/ \E i \in 1..Len(tasks) : \E reply \in ReplyKinds : AdapterReply(i, reply)
    \/ Gather

Spec == Init /\ [][Next]_vars

\* The event loop runs every task that can run, adapter calls end, gather returns
LiveSpec ==
    /\ Spec
    /\ WF_vars(\E i \in 1..Len(tasks) : \E fault \in BOOLEAN : Acquire(i, fault))
    /\ WF_vars(\E i \in 1..Len(tasks) : \E reply \in ReplyKinds : AdapterReply(i, reply))
    /\ WF_vars(Gather)

(***************************************************************************)
(* Direct calls of the validator: ContentPublisher.validate_content and    *)
(* validate_content_for_platform, on contents as the tests build them      *)
(* (fields may be assigned after construction, which pydantic does not     *)
(* re-validate)                                                            *)
(***************************************************************************)
\* long tags of the content with the most errors
ManyTags == 11

Whitespace(n) == [len |-> n, blank |-> TRUE]
NoText == [Html(0, 0) EXCEPT !.text_empty = TRUE]
Seo(meta_title, meta_description, keywords) ==
    [present |-> TRUE, meta_title |-> meta_title, meta_description |-> meta_description,
     keywords |-> keywords]
Faq(question, answer, order) == [question |-> question, answer |-> answer, order |-> order]
Image(alt_text, url) == [alt_text |-> alt_text, url |-> url]

\* tests/unit/test_validation.py test_faq_validation
GoodFaq == Faq(Str(13), Str(18), 1)

Content(type, title, body, tagged, seo, images, faqs) ==
    [type |-> type, title |-> title, content |-> body[1], html |-> body[2],
     excerpt |-> NoneStr, tags |-> tagged[1], categories |-> tagged[2], seo |-> seo,
     images |-> images, faqs |-> faqs, specifications |-> <<>>,
     cta_text |-> FALSE, cta_url |-> FALSE]

ValidatorTitles ==
    {Str(0), Whitespace(3), Str(8), Str(14), Str(TITLE_MAX_LENGTH), Str(250), Str(300)}
ValidatorBodies ==
    { <<Str(0), NoText>>, <<Whitespace(2), NoText>>, <<Str(53), Html(1, 1)>>,
      <<Str(150), Html(0, 0)>>, <<Str(3500), Html(2, 2)>> }
ValidatorTypes ==
    { <<"blog", <<>>>>, <<"product-description", <<>>>>, <<"landing-page", <<>>>>,
      <<"faq", <<>>>>, <<"faq", <<GoodFaq>>>>,
      <<"faq", <<GoodFaq, Faq(Whitespace(1), Str(20), 2)>>>>,
      <<"faq", <<Faq(Str(13), Str(18), 0)>>>>,
      <<"faq", [k \in 1..FAQS_MAX_COUNT |-> GoodFaq]>>,
      <<"faq", [k \in 1..(FAQS_MAX_COUNT + 1) |-> GoodFaq]>> }
ValidatorTags ==
    { <<<<>>, <<>>>>, <<<<4, 4>>, <<>>>>, <<<<4, 4>>, <<7>>>>,
      <<[k \in 1..ManyTags |-> TAG_MAX_LENGTH + 10], <<>>>> }
ValidatorSeos ==
    { NoSeo, Seo(Str(26), Str(37), 3), Seo(Str(40), Str(130), 3), Seo(Str(100), Str(37), 3) }
ValidatorImages == { <<>>, <<Image(TRUE, TRUE)>>, <<Image(FALSE, TRUE)>> }

ValidatorContents ==
    { Content(ty[1], title, body, tagged, seo, images, ty[2]) :
        ty \in ValidatorTypes, title \in ValidatorTitles, body \in ValidatorBodies,
        tagged \in ValidatorTags, seo \in ValidatorSeos, images \in ValidatorImages }

\* the platform is any string: the four platform types and one that is none of them
PlatformNames == {"webflow", "wordpress", "linkedin", "twitter", "medium"}

\* mutant: construction without the validators of faqs and specifications
AIContent_accepts_no_type_gate(content) ==
    /\ content.title.len \in 1..TITLE_MAX_LENGTH /\ ~content.title.blank
    /\ content.content.len >= 1 /\ ~content.content.blank
    /\ content.excerpt.len <= EXCERPT_MAX_LENGTH
    /\ Len(content.tags) <= TAGS_MAX_COUNT
    /\ Len(content.categories) <= CATEGORIES_MAX_COUNT
    /\ content.seo.meta_title.len <= META_TITLE_MAX
    /\ content.seo.meta_description.len <= META_DESCRIPTION_MAX
    /\ \A k \in 1..Len(content.faqs) :
           /\ content.faqs[k].question.len \in 1..FAQ_QUESTION_MAX
           /\ content.faqs[k].answer.len \in 1..FAQ_ANSWER_MAX
           /\ content.faqs[k].order >= 1
    /\ \A k \in 1..Len(content.specifications) :
           /\ content.specifications[k].name.len \in 1..SPEC_NAME_MAX
           /\ content.specifications[k].value.len \in 1..SPEC_VALUE_MAX
    /\ \A k \in 1..Len(content.images) : content.images[k].url

\* What the field declarations and validators of AIContent accept at construction
AIContent_accepts(content) ==
    /\ content.title.len \in 1..TITLE_MAX_LENGTH /\ ~content.title.blank
    /\ content.content.len >= 1 /\ ~content.content.blank
    /\ content.excerpt.len <= EXCERPT_MAX_LENGTH
    /\ Len(content.tags) <= TAGS_MAX_COUNT
    /\ Len(content.categories) <= CATEGORIES_MAX_COUNT
    /\ content.seo.meta_title.len <= META_TITLE_MAX
    /\ content.seo.meta_description.len <= META_DESCRIPTION_MAX
    /\ content.faqs # <<>> => content.type = "faq"
    /\ content.specifications # <<>> => content.type = "product-description"
    /\ \A k \in 1..Len(content.faqs) :
           /\ content.faqs[k].question.len \in 1..FAQ_QUESTION_MAX
           /\ content.faqs[k].answer.len \in 1..FAQ_ANSWER_MAX
           /\ content.faqs[k].order >= 1
    /\ \A k \in 1..Len(content.specifications) :
           /\ content.specifications[k].name.len \in 1..SPEC_NAME_MAX
           /\ content.specifications[k].value.len \in 1..SPEC_VALUE_MAX
    /\ \A k \in 1..Len(content.images) : content.images[k].url

ValidatorInit ==
    /\ settings = Credentials("set", "set", MaxItems)
    /\ platforms = _initialize_platforms(settings)
    /\ request = NoRequest
    /\ bpc = "idle"
    /\ semaphore = 0
    /\ tasks = <<>>
    /\ validations = <<>>
    /\ calls = <<>>
    /\ response = NoBatchResponse
    /\ checked \in [stage : {"given"}, content : ValidatorContents, platform : PlatformNames]

\* ContentPublisher.validate_content(content)
ValidateContent ==
    /\ checked.stage = "given"
    /\ checked' = [stage |-> "validated", content |-> checked.content,
                   platform |-> checked.platform,
                   base |-> validate_content(checked.content)]
    /\ UNCHANGED <<settings, platforms, request, bpc, semaphore, tasks, validations, calls,
                   response>>

\* ContentPublisher.validate_content_for_platform(content, platform)
ValidateForPlatform ==
    /\ checked.stage = "validated"
    /\ checked' = [stage |-> "overlaid", content |-> checked.content,
                   platform |-> checked.platform, base |-> checked.base,
                   overlay |-> validate_for_platform(checked.content, checked.platform)]
    /\ UNCHANGED <<settings, platforms, request, bpc, semaphore, tasks, validations, calls,
                   response>>

ValidatorNext == ValidateContent \/ ValidateForPlatform

ValidatorSpec == ValidatorInit /\ [][ValidatorNext]_vars

(***************************************************************************)
(* Construction of AIContent from request data, followed by the validator  *)
(***************************************************************************)
Specification(name, value) == [name |-> name, value |-> value]

\* tests/unit/test_models.py test_product_description_type
GoodSpecification == Specification(Str(6), Str(3))

RawTitles == {Str(0), Str(14), Str(300)}
RawTypes == {"blog", "faq", "product-description", "landing-page"}
RawFaqs == { <<>>, <<GoodFaq>>, <<Faq(Str(0), Str(18), 1)>> }
RawSpecifications == { <<>>, <<GoodSpecification>> }

\* request data before AIContent(**content_data)
RawContents ==
    { [Content(type, title, <<Str(53), Html(1, 1)>>, <<<<>>, <<>>>>, NoSeo, <<>>, faqs)
           EXCEPT !.specifications = specifications] :
        type \in RawTypes, title \in RawTitles, faqs \in RawFaqs,
        specifications \in RawSpecifications }

ConstructInit ==
    /\ settings = Credentials("set", "set", MaxItems)
    /\ platforms = _initialize_platforms(settings)
    /\ request = NoRequest
    /\ bpc = "idle"
    /\ semaphore = 0
    /\ tasks = <<>>
    /\ validations = <<>>
    /\ calls = <<>>
    /\ response = NoBatchResponse
    /\ checked \in [stage : {"raw"}, content : RawContents, platform : PlatformNames]

\* AIContent(**content_data): the object exists only if every validator passes
Construct ==
    /\ checked.stage = "raw"
    /\ checked' = [stage |-> IF AIContent_accepts(checked.content) THEN "given" ELSE "rejected",
                   content |-> checked.content, platform |-> checked.platform]
    /\ UNCHANGED <<settings, platforms, request, bpc, semaphore, tasks, validations, calls,
                   response>>

ConstructNext == Construct \/ ValidateContent \/ ValidateForPlatform

ConstructSpec == ConstructInit /\ [][ConstructNext]_vars

(***************************************************************************)
(* One call of publish: a batch of one item, with every outcome the        *)
(* adapter interface allows                                                *)
(***************************************************************************)
AdapterOutcomes == ReplyKinds \cup {"created_warned", "rejected_warned"}

\* PublishRequest.platforms is a list: a platform may be named more than once
RepeatedPlatform == <<"webflow", "webflow">>

PublishRequests ==
    { req \in BatchRequests :
        Len(req.content_items) = 1 /\ req.concurrency = 1 /\ ~req.stop_on_error }
    \cup { [content_items |-> <<content>>, platforms |-> RepeatedPlatform,
            concurrency |-> 1, stop_on_error |-> FALSE] : content \in BatchContents }

PublishNext ==
    \/ \E req \in PublishRequests : BatchPublish(req)
    \/ Acquire(1, FALSE)
    \/ \E reply \in AdapterOutcomes : AdapterReply(1, reply)
    \/ Gather

PublishSpec == Init /\ [][PublishNext]_vars

(***************************************************************************)
(* Properties                                                              *)
(***************************************************************************)
Items == 1..Len(request.content_items)
Rejected == Len(request.content_items) > settings.max_batch_size
Returned == bpc = "done" /\ ~Rejected
InFlight == {i \in 1..Len(tasks) : tasks[i].pc = "calling"}
Raised(i) == tasks[i].pc = "done" /\ tasks[i].outcome = "raised"
Failed(i) == tasks[i].pc = "done" /\ (tasks[i].outcome = "raised" \/ ~tasks[i].response.success)
Succeeded(i) == tasks[i].pc = "done" /\ tasks[i].outcome = "returned" /\ tasks[i].response.success
Unavailable == SelectSeq(request.platforms, LAMBDA p : p \notin DOMAIN platforms)

\* C1: with concurrency = k, at most k single-item publish operations hold a
\* permit at the same time, in every reachable state.
C1_ConcurrencyBound ==
    bpc = "gathering" =>
        /\ Cardinality(InFlight) <= request.concurrency
        /\ semaphore >= 0

C1_Witness ==
    /\ bpc = "gathering"
    /\ request.concurrency > 1
    /\ Cardinality(InFlight) = request.concurrency
    /\ \E i \in 1..Len(tasks) : tasks[i].pc = "waiting"

\* C2: with stop_on_error, once the item at index j has failed no adapter
\* publish call is issued for an item at a greater index.
C2_NoDispatchAfterFailure ==
    [][ \A i \in 1..Len(tasks) :
            (request.stop_on_error /\ \E j \in 1..(i - 1) : Failed(j))
                => Len(calls'[i]) = Len(calls[i]) ]_vars

\* What publish returns for content_items[i] given the replies the adapters
\* gave to the calls made for item i
RECURSIVE Replay(_, _, _)
Replay(fr, content, replies) ==
    IF replies = <<>> THEN fr
    ELSE Replay(publish_resume(fr, content, request.platforms, platforms, Head(replies)),
                content, Tail(replies))

OutcomeOfItem(i) ==
    IF Raised(i) THEN item_fault_response(i)
    ELSE LET sent == SelectSeq(calls[i], LAMBDA c : c.reply # "unsent")
         IN  Replay(publish_begin(Frame(NewTask, NoValidations, <<>>),
                                  request.content_items[i], request.platforms, platforms),
                    request.content_items[i],
                    [k \in 1..Len(sent) |-> sent[k].reply]).t.response

\* C3: every entry results[i] of a batch response is the outcome of publishing
\* content_items[i], whatever the order in which the items ran.
C3_ResultsInItemOrder ==
    Returned =>
        \A i \in 1..Len(response.results) : response.results[i] = OutcomeOfItem(i)

C3_Witness ==
    /\ Returned
    /\ request.concurrency > 1
    /\ Len(response.results) >= 2
    /\ response.results[1].success # response.results[2].success
    /\ Len(calls[1]) # Len(calls[2])

FirstFailed == CHOOSE j \in Items : Failed(j) /\ \A h \in 1..(j - 1) : ~Failed(h)

\* C4: with stop_on_error, if j is the first index (0-based) whose item fails,
\* the response has j+1 results, one failed item, j successful items, all the
\* items as total and an entry in errors.
C4_StopOnErrorCounts ==
    (Returned /\ request.stop_on_error /\ \E j \in Items : Failed(j)) =>
        /\ Len(response.results) = FirstFailed
        /\ response.failed_items = 1
        /\ response.successful_items = FirstFailed - 1
        /\ response.total_items = Len(request.content_items)
        /\ response.errors # <<>>

C4_Witness ==
    /\ Returned
    /\ request.stop_on_error
    /\ request.concurrency = 1
    /\ Len(request.content_items) = 3
    /\ Succeeded(1) /\ Failed(2)
    /\ Len(response.results) = 2
    /\ response.failed_items = 1
    /\ response.successful_items = 1
    /\ response.total_items = 3

\* C5: total_items is the number of submitted items and success holds exactly
\* when no item failed.
C5_TotalAndSuccess ==
    bpc = "done" =>
        /\ response.total_items = Len(request.content_items)
        /\ response.success <=> (response.failed_items = 0)

C5_Witness ==
    /\ Returned
    /\ Len(response.results) < Len(request.content_items)
    /\ response.successful_items > 0

\* C6: a batch over the size limit is answered success = false with an error
\* and no results; no item is validated, no permit taken, no adapter called.
C6_OversizeRejected ==
    (bpc # "idle" /\ Rejected) =>
        /\ bpc = "done"
        /\ ~response.success
        /\ response.errors # <<>>
        /\ response.results = <<>>
        /\ tasks = <<>>
        /\ semaphore = 0
        /\ \A i \in Items : validations[i] = NoValidations /\ calls[i] = <<>>

C6_Witness ==
    /\ bpc = "done"
    /\ Rejected
    /\ response.failed_items = Len(request.content_items)

\* C7: without stop_on_error a fault raised for item i becomes a failed
\* response at index i, counted as failed; every other item is published and
\* the results have one entry per submitted item.
C7_FaultIsolated ==
    (Returned /\ ~request.stop_on_error) =>
        /\ Len(response.results) = Len(request.content_items)
        /\ \A i \in Items :
              IF Raised(i)
              THEN /\ ~response.results[i].success
                   /\ response.results[i].message = MsgN("Error processing item N", i)
              ELSE /\ validations[i].content = 1
                   /\ response.results[i] = tasks[i].response
        /\ response.failed_items >= Cardinality({i \in Items : Raised(i)})
        /\ response.failed_items = Cardinality({i \in Items : ~response.results[i].success})

C7_Witness ==
    /\ Returned
    /\ ~request.stop_on_error
    /\ Raised(1)
    /\ \E i \in Items : Succeeded(i)

\* C8: a permit is given back however a single-item publish ends, so every
\* item gets a permit and completes, and batch_publish returns with every
\* permit back.
C8_BatchReturns ==
    (bpc = "gathering") ~>
        (/\ bpc = "done"
         /\ semaphore = request.concurrency
         /\ \A i \in 1..Len(tasks) : tasks[i].pc = "done")

C8_Witness ==
    /\ Returned
    /\ Len(request.content_items) > request.concurrency
    /\ semaphore = request.concurrency
    /\ \E i \in Items : Raised(i)
    /\ \E i \in Items : Succeeded(i)
    /\ \E i \in Items : Failed(i) /\ ~Raised(i)

\* C9: when generic validation reports an error, publish returns success =
\* false with the validator's error and warning messages, and runs no
\* platform validation and no adapter call.
C9_InvalidContentNotDispatched ==
    \A i \in 1..Len(tasks) :
        LET validation_result == validate_content(request.content_items[i]) IN
        validation_result.errors # <<>> =>
            /\ calls[i] = <<>>
            /\ validations[i].platform = <<>>
            /\ tasks[i].pc # "calling"
            /\ (tasks[i].pc = "done" /\ tasks[i].outcome = "returned") =>
                   /\ ~tasks[i].response.success
                   /\ tasks[i].response.errors = Messages(validation_result.errors)
                   /\ tasks[i].response.warnings = Messages(validation_result.warnings)
                   /\ tasks[i].response.platform_results = <<>>

C9_Witness ==
    \E i \in 1..Len(tasks) :
        /\ tasks[i].pc = "done" /\ tasks[i].outcome = "returned"
        /\ validate_content(request.content_items[i]).errors # <<>>
        /\ tasks[i].response.warnings # <<>>
        /\ DOMAIN platforms = {"webflow", "wordpress"}
        /\ request.platforms = <<"wordpress", "webflow">>

\* C10: when a requested platform has no adapter, publish fails the whole
\* request with one error per missing platform and calls no adapter, not even
\* of the requested platforms that are available.
C10_MissingPlatformFailsAll ==
    \A i \in 1..Len(tasks) :
        (Unavailable # <<>> /\ validate_content(request.content_items[i]).errors = <<>>) =>
            /\ calls[i] = <<>>
            /\ tasks[i].pc # "calling"
            /\ (tasks[i].pc = "done" /\ tasks[i].outcome = "returned") =>
                   /\ ~tasks[i].response.success
                   /\ Len(tasks[i].response.errors) = Len(Unavailable)
                   /\ \A k \in 1..Len(Unavailable) :
                          tasks[i].response.errors[k] =
                              MsgS("Platform is not configured or enabled", Unavailable[k])

C10_Witness ==
    \E i \in 1..Len(tasks) :
        /\ tasks[i].pc = "done" /\ tasks[i].outcome = "returned"
        /\ validate_content(request.content_items[i]).errors = <<>>
        /\ request.platforms = <<"webflow", "twitter">>
        /\ "webflow" \in DOMAIN platforms
        /\ ~tasks[i].response.success

(***************************************************************************)
(* Properties of one publish call                                          *)
(***************************************************************************)
\* publish for item i returned, having passed the validation gate and the
\* availability check
Dispatched(i) ==
    /\ tasks[i].pc = "done" /\ tasks[i].outcome = "returned"
    /\ validate_content(request.content_items[i]).is_valid
    /\ Unavailable = <<>>

HasEntry(platform_results, name) ==
    \E k \in 1..Len(platform_results) : platform_results[k][1] = name
Entry(platform_results, name) ==
    platform_results[CHOOSE k \in 1..Len(platform_results) : platform_results[k][1] = name][2]
Range(seq) == {seq[k] : k \in 1..Len(seq)}

FailureReplies == {"rejected", "rejected_warned", "fault", "unsent"}
\* call c of item i is the last one made for its platform
LastCall(i, c) ==
    \A d \in (c + 1)..Len(calls[i]) : calls[i][d].platform # calls[i][c].platform

\* C11: a failure at one requested platform becomes that platform's failed
\* result and every requested platform is still processed and has an entry in
\* platform_results.
C11_PlatformFailureIsolated ==
    \A i \in 1..Len(tasks) :
        Dispatched(i) =>
            /\ validations[i].platform = request.platforms
            /\ \A k \in 1..Len(request.platforms) :
                   /\ HasEntry(tasks[i].response.platform_results, request.platforms[k])
                   /\ \/ ~validate_for_platform(request.content_items[i], request.platforms[k]).is_valid
                      \/ \E c \in 1..Len(calls[i]) : calls[i][c].platform = request.platforms[k]
            /\ \A c \in 1..Len(calls[i]) :
                   (LastCall(i, c) /\ calls[i][c].reply \in FailureReplies)
                       => ~Entry(tasks[i].response.platform_results, calls[i][c].platform).success

C11_Witness ==
    /\ Len(tasks) = 1
    /\ Dispatched(1)
    /\ Len(calls[1]) = 2
    /\ calls[1][1].reply = "fault"
    /\ calls[1][2].reply = "created"
    /\ Len(tasks[1].response.platform_results) = 2

\* C12: once dispatch is reached, success holds only if every requested
\* platform succeeded; when one fails the response is a failure, each entry
\* of platform_results keeps its own outcome and content_id and url are absent.
C12_SuccessOnlyIfAllSucceed ==
    \A i \in 1..Len(tasks) :
        Dispatched(i) =>
            LET result == tasks[i].response IN
            /\ result.success <=>
                   \A c \in 1..Len(calls[i]) : calls[i][c].reply \in {"created", "created_warned"}
            /\ \A c \in 1..Len(calls[i]) :
                   LastCall(i, c) =>
                   Entry(result.platform_results, calls[i][c].platform).success
                       <=> calls[i][c].reply \in {"created", "created_warned"}
            /\ ~result.success => (result.content_id = "" /\ result.url = "")

C12_Witness ==
    /\ Len(tasks) = 1
    /\ Dispatched(1)
    /\ Len(calls[1]) = 2
    /\ calls[1][1].reply = "created"
    /\ calls[1][2].reply = "rejected"
    /\ ~tasks[1].response.success
    /\ tasks[1].response.platform_results[1][2].success
    /\ ~tasks[1].response.platform_results[2][2].success

\* C13: when every requested platform succeeds, the top-level content_id and
\* url are those of the result of the first platform requested.
C13_FirstPlatformIdentifiers ==
    \A i \in 1..Len(tasks) :
        (Dispatched(i) /\ tasks[i].response.success) =>
            LET result == tasks[i].response
                first == Entry(result.platform_results, request.platforms[1])
            IN  /\ result.content_id = first.content_id
                /\ result.url = first.url
                /\ result.content_id = RemoteId(request.platforms[1])
                /\ result.url = RemoteUrl(request.platforms[1])

C13_Witness ==
    /\ Len(tasks) = 1
    /\ Dispatched(1)
    /\ tasks[1].response.success
    /\ request.platforms = <<"wordpress", "webflow">>
    /\ tasks[1].response.content_id = RemoteId("wordpress")

Validated == checked.stage \in {"validated", "overlaid"}
Overlaid == checked.stage = "overlaid"
\* the errors whose field is the named field or an item of it
ErrorsOn(result, name) == SelectSeq(result.errors, LAMBDA e : e.field[1] = name)
WarningsOn(result, name) == SelectSeq(result.warnings, LAMBDA w : w.field[1] = name)

\* C15: for every content that construction accepts and every platform, the
\* score of validate_content and of validate_for_platform is an integer
\* between 0 and 100.
C15_ScoreInRange ==
    (Validated /\ AIContent_accepts(checked.content)) =>
        /\ checked.base.score \in 0..100
        /\ Overlaid => checked.overlay.score \in 0..100

C15_Witness ==
    /\ Overlaid
    /\ AIContent_accepts(checked.content)
    /\ Len(checked.base.errors) > 10
    /\ checked.base.score = 0
    /\ checked.overlay.score = 0

\* C16: validate_for_platform returns every error of validate_content on the
\* same content, and so at least as many errors.
C16_PlatformKeepsBaseErrors ==
    Overlaid =>
        /\ Len(checked.overlay.errors) >= Len(checked.base.errors)
        /\ SubSeq(checked.overlay.errors, 1, Len(checked.base.errors)) = checked.base.errors

C16_Witness ==
    /\ Overlaid
    /\ checked.platform = "twitter"
    /\ Len(checked.base.errors) >= 2
    /\ checked.overlay.errors = checked.base.errors

\* C17: for a title over the Twitter limit of 280 characters,
\* validate_for_platform(content, "twitter") is invalid and has the Twitter
\* title error.
C17_TwitterTitleError ==
    (Overlaid /\ checked.platform = "twitter" /\ checked.content.title.len > TWITTER_TITLE_MAX) =>
        /\ ~checked.overlay.is_valid
        /\ \E k \in 1..Len(checked.overlay.errors) :
               checked.overlay.errors[k].message
                   = Msg("Title too long for Twitter (280 character limit)")

\* C18: a blank or whitespace-only title makes validate_content invalid with
\* an error on field title; a blank or whitespace-only body makes it invalid
\* with an error on field content.
C18_BlankTitleOrBodyRejected ==
    Validated =>
        /\ IsBlank(checked.content.title) =>
               (~checked.base.is_valid /\ ErrorsOn(checked.base, "title") # <<>>)
        /\ IsBlank(checked.content.content) =>
               (~checked.base.is_valid /\ ErrorsOn(checked.base, "content") # <<>>)

C18_Witness ==
    /\ Validated
    /\ checked.content.title = Whitespace(3)
    /\ checked.content.content = Whitespace(2)
    /\ ErrorsOn(checked.base, "title") # <<>>
    /\ ErrorsOn(checked.base, "content") # <<>>

WellFormedFaqs(faqs) ==
    /\ Len(faqs) \in 1..FAQS_MAX_COUNT
    /\ \A k \in 1..Len(faqs) :
           /\ ~IsBlank(faqs[k].question) /\ faqs[k].question.len <= FAQ_QUESTION_MAX
           /\ ~IsBlank(faqs[k].answer) /\ faqs[k].answer.len <= FAQ_ANSWER_MAX
           /\ faqs[k].order >= 1

\* C19: content of type faq without faqs fails validation with an error on
\* field faqs; with a non-empty sequence of well-formed items (at most 50) no
\* error is on faqs or on an item of it.
C19_FaqRule ==
    (Validated /\ checked.content.type = "faq") =>
        /\ checked.content.faqs = <<>> =>
               /\ ~checked.base.is_valid
               /\ \E k \in 1..Len(checked.base.errors) : checked.base.errors[k].field = Fld("faqs")
        /\ WellFormedFaqs(checked.content.faqs) => ErrorsOn(checked.base, "faqs") = <<>>

C19_Witness ==
    /\ Validated
    /\ checked.content.type = "faq"
    /\ Len(checked.content.faqs) = FAQS_MAX_COUNT
    /\ WellFormedFaqs(checked.content.faqs)
    /\ checked.base.is_valid

\* The sample blog content without its SEO block, excerpt and categories
SampleBlogNoSeo ==
    Content("blog", Str(14), <<Str(53), Html(1, 1)>>, <<<<4, 4>>, <<>>>>, NoSeo, <<>>, <<>>)

\* C20: a content without SEO block gets a warning, never an error, on field
\* seo; the sample blog content without SEO block is valid, has at least one
\* warning and a score below 100.
C20_MissingSeoIsWarning ==
    (Validated /\ ~checked.content.seo.present) =>
        /\ \E k \in 1..Len(checked.base.warnings) : checked.base.warnings[k].field = Fld("seo")
        /\ \A k \in 1..Len(checked.base.errors) :
               checked.base.errors[k].field[1] \notin {"seo", "seo.meta_title", "seo.meta_description",
                                                       "seo.keywords"}
        /\ checked.content = SampleBlogNoSeo =>
               /\ checked.base.is_valid
               /\ Len(checked.base.warnings) >= 1
               /\ checked.base.score < 100

C20_Witness ==
    /\ Validated
    /\ checked.content = SampleBlogNoSeo
    /\ checked.base.is_valid
    /\ checked.base.score = 99

Bonus(content) ==
    (IF content.seo.present /\ content.seo.meta_title.len > 0
        /\ content.seo.meta_description.len > 0 THEN 5 ELSE 0)
    + (IF content.tags # <<>> THEN 3 ELSE 0)
    + (IF content.categories # <<>> THEN 2 ELSE 0)
    + (IF content.images # <<>> /\ \A k \in 1..Len(content.images) : content.images[k].alt_text
       THEN 5 ELSE 0)

\* C22: the score of validate_content is min(100, max(0, 100 - 10*E - 2*W + B))
\* for the E errors and W warnings of the result and the bonus B.
C22_ScoreFormula ==
    Validated =>
        LET raw == 100 - 10 * Len(checked.base.errors) - 2 * Len(checked.base.warnings)
                       + Bonus(checked.content)
        IN  checked.base.score = (IF raw < 0 THEN 0 ELSE IF raw > 100 THEN 100 ELSE raw)

C22_Witness ==
    /\ Validated
    /\ Bonus(checked.content) = 15
    /\ Len(checked.base.errors) >= 1
    /\ Len(checked.base.warnings) >= 1
    /\ checked.base.score \in 1..99

\* C23: when validate_content has no error, the score of validate_for_platform
\* is max(0, base score - 5*PE - PW) for the PE errors and PW warnings the
\* platform rules added; a platform without rules gets the base result.
C23_PlatformScore ==
    (Overlaid /\ checked.base.errors = <<>>) =>
        LET PE == Len(checked.overlay.errors) - Len(checked.base.errors)
            PW == Len(checked.overlay.warnings) - Len(checked.base.warnings)
            lowered == checked.base.score - 5 * PE - PW
        IN  /\ PE >= 0 /\ PW >= 0
            /\ checked.overlay.score = (IF lowered < 0 THEN 0 ELSE lowered)
            /\ checked.platform \in {"wordpress", "medium"} =>
                   /\ checked.overlay.errors = checked.base.errors
                   /\ checked.overlay.warnings = checked.base.warnings
                   /\ checked.overlay.score = checked.base.score

C23_Witness ==
    /\ Overlaid
    /\ checked.base.errors = <<>>
    /\ checked.platform = "linkedin"
    /\ Len(checked.overlay.warnings) = Len(checked.base.warnings) + 1
    /\ checked.overlay.score = checked.base.score - 1

\* C24: is_valid holds exactly when errors is empty, in the results of
\* validate_content and of validate_for_platform; warnings leave is_valid
\* alone and lower the score.
C24_ValidIffNoErrors ==
    Validated =>
        /\ checked.base.is_valid <=> (checked.base.errors = <<>>)
        /\ Overlaid => (checked.overlay.is_valid <=> (checked.overlay.errors = <<>>))
        /\ checked.base.errors = <<>> =>
               checked.base.score <= 100 - 2 * Len(checked.base.warnings) + Bonus(checked.content)

C24_Witness ==
    /\ Overlaid
    /\ checked.base.is_valid
    /\ checked.overlay.is_valid
    /\ Len(checked.base.warnings) >= 3
    /\ Len(checked.overlay.warnings) > Len(checked.base.warnings)
    /\ checked.base.score < 100

\* C30: when validate_content reports no error, validate_for_platform reports
\* none for any platform; publish, past the validation gate, records no
\* platform validation failure and issues the adapter call.
C30_PlatformValidationNeverFails ==
    (Overlaid /\ checked.base.errors = <<>>) =>
        /\ checked.overlay.errors = <<>>
        /\ checked.overlay.is_valid
        /\ checked.platform \in DOMAIN platforms =>
               LET fr == publish_begin(Frame(NewTask, NoValidations, <<>>), checked.content,
                                       <<checked.platform>>, platforms)
               IN  /\ fr.t.pc = "calling"
                   /\ fr.t.platform_results = <<>>
                   /\ fr.v.platform = <<checked.platform>>
                   /\ fr.c = <<[platform |-> checked.platform, reply |-> "pending"]>>

C30_Witness ==
    /\ Overlaid
    /\ checked.base.errors = <<>>
    /\ checked.platform = "twitter"
    /\ checked.content.title.len = TITLE_MAX_LENGTH
    /\ checked.overlay.is_valid

(***************************************************************************)
(* Further properties of publish and batch_publish                         *)
(***************************************************************************)
\* C27: in every publish response that reached dispatch, whatever the list of
\* requested platforms, success equals the conjunction of the success flags
\* of the entries of platform_results.
C27_SuccessIsConjunctionOfEntries ==
    \A i \in 1..Len(tasks) :
        Dispatched(i) =>
            LET result == tasks[i].response IN
            result.success <=>
                \A k \in 1..Len(result.platform_results) : result.platform_results[k][2].success

\* C28: in every batch response successful_items + failed_items is at most
\* total_items; unless the batch was rejected for its size the two count the
\* successful and the failed entries of results, and without stop_on_error
\* they add up to total_items.
C28_CountsMatchResults ==
    bpc = "done" =>
        /\ response.successful_items + response.failed_items <= response.total_items
        /\ ~Rejected =>
               /\ response.successful_items =
                      Cardinality({k \in 1..Len(response.results) : response.results[k].success})
               /\ response.failed_items =
                      Cardinality({k \in 1..Len(response.results) : ~response.results[k].success})
               /\ ~request.stop_on_error =>
                      response.successful_items + response.failed_items = response.total_items

C28_Witness ==
    /\ Returned
    /\ ~request.stop_on_error
    /\ response.total_items = 3
    /\ response.successful_items = 2
    /\ response.failed_items = 1
    /\ ~response.results[2].success

\* C29: within one publish call the platforms are contacted one after another
\* in request order: a call is issued only when the calls before it have
\* completed, so at most one adapter call of a publish call is in flight.
C29_SequentialDispatch ==
    \A i \in 1..Len(tasks) :
        /\ \A c \in 1..Len(calls[i]) :
               /\ calls[i][c].platform = request.platforms[c]
               /\ calls[i][c].reply = "pending" => (c = Len(calls[i]) /\ tasks[i].pc = "calling")
        /\ tasks[i].pc = "calling" =>
               (calls[i] # <<>> /\ calls[i][Len(calls[i])].reply = "pending")

C29_Witness ==
    \E i \in 1..Len(tasks) :
        /\ tasks[i].pc = "calling"
        /\ Len(calls[i]) = 2
        /\ calls[i][1].reply \in ReplyKinds
        /\ calls[i][2].reply = "pending"

\* C26: an adapter is registered under a platform's name exactly when all the
\* credentials its adapter requires are present, and the registry never
\* changes after construction.
C26_RegistryOfConfiguredPlatforms ==
    /\ [](\A p \in AdapterClasses :
              p \in DOMAIN platforms
                  <=> \A field \in get_required_config_fields(p) :
                          get_platform_config(settings, p)[field] # "none")
    /\ [][platforms' = platforms]_vars

(***************************************************************************)
(* Construction of AIContent: the type gate                                *)
(***************************************************************************)
Constructed == checked.stage \in {"given", "validated", "overlaid"}

TypeGate(content) ==
    /\ content.faqs # <<>> => content.type = "faq"
    /\ content.specifications # <<>> => content.type = "product-description"
    /\ ~(content.faqs # <<>> /\ content.specifications # <<>>)

\* C25: every content that was constructed has FAQs only when its type is faq
\* and specifications only when its type is product-description, never both;
\* a construction that violates this fails, and the content of a failed
\* construction reaches neither validate_content nor validate_for_platform.
C25_TypeGateAtConstruction ==
    /\ [](Constructed => TypeGate(checked.content))
    /\ [][/\ (checked.stage = "raw" /\ ~TypeGate(checked.content))
                 => checked'.stage = "rejected"
          /\ checked.stage = "rejected" => checked' = checked]_vars

C25_Witness ==
    /\ checked.stage = "rejected"
    /\ checked.content.type = "blog"
    /\ checked.content.faqs = <<GoodFaq>>
    /\ checked.content.specifications = <<>>
    /\ checked.content.title = Str(14)

====
